---- MODULE Spec2Model ----
(***************************************************************************)
(* A model of ftpsync (src/ftpsync.py): a caching website uploader.  The   *)
(* state of the remote site is recorded in a hash file on the server; a    *)
(* run uploads the files whose hash changed, deletes the files that are    *)
(* gone, and rewrites the hash file.                                       *)
(*                                                                         *)
(* Representation.                                                         *)
(*  - A path string is the sequence of its '/'-separated segments:         *)
(*    "./d/c" is <<".", "d", "c">>.  Segments are one character long, so   *)
(*    Python's string order is the segment-wise order below.               *)
(*  - A dict is the sequence of its (key, value) items in insertion order, *)
(*    keys distinct.  Dict equality (==) compares them as mappings.        *)
(*  - A JSON text is a sequence of tokens; line breaks are tokens.         *)
(***************************************************************************)
EXTENDS Integers, Sequences, FiniteSets, TLC

\* ------------------------------------------------------------------ bounds
\* Runs of the program in one behaviour.
MaxRuns == 2
\* Largest dict handed to the pure functions.
MaxDictLen == 2

\* ------------------------------------------------------------------ strings
\* ord() of the one-character segments: '.' sorts before every letter.
Rank(seg) ==
    CASE seg = "." -> 46
      [] seg = "a" -> 97
      [] seg = "c" -> 99
      [] seg = "d" -> 100
      [] seg = "s" -> 115
      [] OTHER -> 128

\* str.__lt__ on two paths, as sorted() applies it.
PathLess(p, q) ==
    \E i \in 1..(Len(p) + 1) :
        /\ i <= Len(q)
        /\ \A j \in 1..(i - 1) : p[j] = q[j]
        /\ \/ i = Len(p) + 1
           \/ i <= Len(p) /\ Rank(p[i]) < Rank(q[i])

RECURSIVE InsertSorted(_, _)
InsertSorted(x, s) ==
    IF s = <<>> THEN <<x>>
    ELSE IF PathLess(x, Head(s)) THEN <<x>> \o s
    ELSE <<Head(s)>> \o InsertSorted(x, Tail(s))

\* sorted(list): a stable sort that keeps duplicates.
RECURSIVE sorted(_)
sorted(s) ==
    IF s = <<>> THEN <<>>
    ELSE InsertSorted(s[Len(s)], sorted(SubSeq(s, 1, Len(s) - 1)))

\* ------------------------------------------------------------------ dicts
None == "None"

Keys(d) == {d[i][1] : i \in 1..Len(d)}

\* dict.get(k): the value, or None.
Get(d, k) ==
    IF k \in Keys(d)
    THEN d[CHOOSE i \in 1..Len(d) : d[i][1] = k][2]
    ELSE None

\* d[k] = v on an insertion-ordered dict.
DictSet(d, k, v) ==
    IF k \in Keys(d)
    THEN [i \in 1..Len(d) |-> IF d[i][1] = k THEN <<k, v>> ELSE d[i]]
    ELSE Append(d, <<k, v>>)

\* dict(items): later items overwrite earlier ones with the same key.
RECURSIVE DictFromItems(_)
DictFromItems(items) ==
    IF items = <<>> THEN <<>>
    ELSE LET last == items[Len(items)]
         IN  DictSet(DictFromItems(SubSeq(items, 1, Len(items) - 1)),
                     last[1], last[2])

\* dict.__eq__: same keys, same values, order ignored.
DictEq(d, e) ==
    /\ Keys(d) = Keys(e)
    /\ \A k \in Keys(d) : Get(d, k) = Get(e, k)

IsDict(d) == \A i, j \in 1..Len(d) : d[i][1] = d[j][1] => i = j

\* ------------------------------------------------------------------ planner
NewFilesNoHashCheck(new, old) ==
    LET sel == SelectSeq(new, LAMBDA e : e[1] \notin Keys(old))
    IN  sorted([i \in 1..Len(sel) |-> sel[i][1]])

NewFilesUploadAll(new, old) ==
    sorted([i \in 1..Len(new) |-> new[i][1]])

\* sorted([f for (f, h) in new.items() if h != old.get(f)])
new_files(new, old) ==
    LET sel == SelectSeq(new, LAMBDA e : e[2] # Get(old, e[1]))
    IN  sorted([i \in 1..Len(sel) |-> sel[i][1]])

DeletedFilesWithChanged(new, old) ==
    LET sel == SelectSeq(old, LAMBDA e : Get(new, e[1]) # e[2])
    IN  sorted([i \in 1..Len(sel) |-> sel[i][1]])

\* sorted([f for f in old if f not in new])
deleted_files(new, old) ==
    LET sel == SelectSeq(old, LAMBDA e : e[1] \notin Keys(new))
    IN  sorted([i \in 1..Len(sel) |-> sel[i][1]])

\* ------------------------------------------------------------------ paths
\* k.removeprefix("./")
removeprefix(k) ==
    IF Len(k) >= 2 /\ k[1] = "." THEN Tail(k) ELSE k

NormalizeIdentity(hashes) == hashes

NormalizeDropFirst(hashes) ==
    DictFromItems([i \in 1..Len(hashes) |->
        <<IF Len(hashes[i][1]) >= 2 THEN Tail(hashes[i][1]) ELSE hashes[i][1],
          hashes[i][2]>>])

\* {k.removeprefix("./"): v for k, v in hashes.items()}
normalize_paths(hashes) ==
    DictFromItems([i \in 1..Len(hashes) |->
        <<removeprefix(hashes[i][1]), hashes[i][2]>>])

\* The parts of pathlib.Path(p): "." segments are dropped.
PathParts(p) == SelectSeq(p, LAMBDA seg : seg # ".")

\* [str(f) for f in Path(p).parents]: every proper prefix of the parts, the
\* empty prefix printing as ".".
PathParents(p) ==
    LET parts == PathParts(p)
    IN  {IF n = 0 THEN <<".">> ELSE SubSeq(parts, 1, n) : n \in 0..(Len(parts) - 1)}

GetFoldersNoRoot(hashes) ==
    UNION {PathParents(k) \ {<<".">>} : k \in Keys(hashes)}

GetFoldersParentOnly(hashes) ==
    {IF Len(PathParts(k)) = 1 THEN <<".">>
     ELSE SubSeq(PathParts(k), 1, Len(PathParts(k)) - 1) : k \in Keys(hashes)}

\* set(str(folder) for p in hashes for folder in Path(p).parents)
get_folders(hashes) == UNION {PathParents(k) : k \in Keys(hashes)}

\* os.path.split(path)[0]
SplitHead(path) == SubSeq(path, 1, Len(path) - 1)

\* ------------------------------------------------------------------ hash file codec
Tok(t) == [t |-> t, s |-> <<>>]
Str(s) == [t |-> "str", s |-> s]
LB == Tok("{")
RB == Tok("}")
LBRACK == Tok("[")
RBRACK == Tok("]")
COLON == Tok(":")
COMMA == Tok(",")
NL == Tok("nl")

JsonMember(item) == <<Str(item[1]), COLON, Str(<<item[2]>>)>>

RECURSIVE JsonMembers(_)
JsonMembers(items) ==
    IF Len(items) = 1 THEN JsonMember(items[1])
    ELSE JsonMember(items[1]) \o <<COMMA, NL>> \o JsonMembers(Tail(items))

\* json.dumps(hashes, indent=2): "{}" for the empty dict, else one member a line.
json_dumps(hashes) ==
    IF hashes = <<>> THEN <<LB, RB>>
    ELSE <<LB, NL>> \o JsonMembers(hashes) \o <<NL, RB>>

\* ftp.storlines: every line read from the buffer is sent with a line end.
StorLines(data) ==
    IF data = <<>> \/ data[Len(data)].t = "nl" THEN data ELSE Append(data, NL)

\* ftp.retrlines with f.write: every line is written without its line end.
RetrLines(content) == SelectSeq(content, LAMBDA tok : tok.t # "nl")

JSONDecodeError == [kind |-> "JSONDecodeError", hashes |-> <<>>]

\* json.load: white space skipped; an object of string members becomes a dict,
\* an array a list, anything else raises JSONDecodeError.
json_load(text) ==
    LET toks == SelectSeq(text, LAMBDA tok : tok.t # "nl")
        n    == Len(toks) - 2
        body == SubSeq(toks, 2, Len(toks) - 1)
        cnt  == (n + 1) \div 4
    IN  IF toks = <<LBRACK, RBRACK>> THEN [kind |-> "list", hashes |-> <<>>]
        ELSE IF n < 0 \/ toks[1].t # "{" \/ toks[Len(toks)].t # "}"
        THEN JSONDecodeError
        ELSE IF n = 0 THEN [kind |-> "dict", hashes |-> <<>>]
        ELSE IF /\ (n + 1) % 4 = 0
                /\ \A i \in 1..cnt :
                      /\ body[4 * i - 3].t = "str"
                      /\ body[4 * i - 2].t = ":"
                      /\ body[4 * i - 1].t = "str"
                      /\ i < cnt => body[4 * i].t = ","
        THEN [kind |-> "dict",
              hashes |-> DictFromItems([i \in 1..cnt |->
                            <<body[4 * i - 3].s, body[4 * i - 1].s[1]>>])]
        ELSE JSONDecodeError

\* The remote hash file: absent, or present with its content.
NoHashfile == [exists |-> FALSE, text |-> <<>>]
Hashfile(text) == [exists |-> TRUE, text |-> text]

LoadHashesNoSeek(file) ==
    IF ~file.exists THEN [kind |-> "None", hashes |-> <<>>]
    ELSE LET v == json_load(<<>>)
         IN  CASE v.kind = "JSONDecodeError" -> [kind |-> "None", hashes |-> <<>>]
               [] v.kind = "list" -> [kind |-> "AttributeError", hashes |-> <<>>]
               [] OTHER -> [kind |-> "dict", hashes |-> normalize_paths(v.hashes)]

\* load_hashes: None when RETR is refused (ftplib.error_perm) or the text is not
\* JSON; the normalized dict otherwise.  A JSON text that is no object makes
\* normalize_paths raise AttributeError.
load_hashes(file) ==
    IF ~file.exists THEN [kind |-> "None", hashes |-> <<>>]
    ELSE LET v == json_load(RetrLines(file.text))
         IN  CASE v.kind = "JSONDecodeError" -> [kind |-> "None", hashes |-> <<>>]
               [] v.kind = "list" -> [kind |-> "AttributeError", hashes |-> <<>>]
               [] OTHER -> [kind |-> "dict", hashes |-> normalize_paths(v.hashes)]

\* save_hashes: the content stored under the hash file's name.
save_hashes(hashes) == StorLines(json_dumps(hashes))

\* ------------------------------------------------------------------ the trees
\* --hashfile default: the hash file's name in the remote directory.
hashfile == <<".hashes.json">>

\* File paths of the modelled trees: a file at the top, one in a folder, one
\* in a nested folder.  "d" may be a file or a folder, never both.
TreePaths == {<<"d">>, <<"d", "c">>, <<"d", "s", "c">>}
Hashes == {"H1", "H2"}
\* The content of a remote file whose upload broke off.
Partial == "partial"

ProperPrefix(p, q) == Len(p) < Len(q) /\ SubSeq(q, 1, Len(p)) = p
Ancestors(p) == {SubSeq(p, 1, n) : n \in 1..(Len(p) - 1)}
FileSets == {S \in SUBSET TreePaths : \A p, q \in S : ~ProperPrefix(p, q)}
DirPaths == UNION {Ancestors(p) : p \in TreePaths}

RECURSIVE SortSet(_)
SortSet(S) ==
    IF S = {} THEN <<>>
    ELSE LET m == CHOOSE x \in S : \A y \in S \ {x} : PathLess(x, y)
         IN  <<m>> \o SortSet(S \ {m})

\* A mapping path -> hash as a dict.
DictOf(f) ==
    LET ks == SortSet(DOMAIN f)
    IN  [i \in 1..Len(ks) |-> <<ks[i], f[ks[i]]>>]

\* The dicts folder_hashes() can return: Path().walk() yields paths with no
\* "./" prefix.
LocalTrees == {DictOf(f) : f \in UNION {[S -> Hashes] : S \in FileSets}}

\* The folders a remote tree with files S can hold.
RemoteDirSets(S) ==
    {R \in SUBSET DirPaths :
        /\ \A p \in S : Ancestors(p) \subseteq R
        /\ \A d \in R : Ancestors(d) \subseteq R
        /\ R \cap S = {}}

\* The keys as old versions of the program stored them.
Prefixed(d) == [i \in 1..Len(d) |-> <<<<".">> \o d[i][1], d[i][2]>>]

\* The hash files a remote tree with files f can start with: none, one that
\* matches the files (with or without the old prefix), a cut one, a JSON array.
InitialHashfiles(f) ==
    {NoHashfile,
     Hashfile(save_hashes(DictOf(f))),
     Hashfile(save_hashes(Prefixed(DictOf(f)))),
     Hashfile(SubSeq(save_hashes(DictOf(f)), 1, Len(save_hashes(DictOf(f))) - 2)),
     Hashfile(<<LBRACK, RBRACK, NL>>)}

\* ------------------------------------------------------------------ state
VARIABLES
    pc,                      \* position of the current run
    mode,                    \* "none", "Bootstrap" (upload_all), "Incremental"
    runs,                    \* invocations of main so far
    local,                   \* the local tree: path -> sha256, as a dict
    rfiles,                  \* remote files: path -> hash of the content
    rdirs,                   \* remote folders
    manifest,                \* the remote hash file
    manifest0,               \* the remote hash file when this run started
    old_hashes,              \* run(): old_hashes
    new_hashes,              \* upload_all/upload_changed: new_hashes
    already_created_folders, \* FtpSynchronizer.already_created_folders
    paths,                   \* upload_files: paths still to upload
    mk,                      \* create_parent_folder: folders still to make
    dels,                    \* upload_changed: paths still to delete
    stack,                   \* delete_contents: the frames of the recursion
    ops,                     \* the calls made on ftp in this run
    aborted,                 \* "" or the position at which the run failed
    wrote,                   \* the hash file was written completely
    prev,                    \* how the previous run ended
    fn, arg1, arg2, result   \* a function applied on its own

vars == <<pc, mode, runs, local, rfiles, rdirs, manifest, manifest0, old_hashes,
          new_hashes, already_created_folders, paths, mk, dels, stack, ops,
          aborted, wrote, prev, fn, arg1, arg2, result>>

pureVars == <<fn, arg1, arg2, result>>
remoteVars == <<rfiles, rdirs, manifest>>
planVars == <<old_hashes, new_hashes, paths, dels>>

NoPrev == [ended |-> "none", aborted |-> "", wrote |-> FALSE, mode |-> "none",
           manifest0 |-> NoHashfile]

Call(op, path, res) == [op |-> op, path |-> path, res |-> res]

Init ==
    /\ pc = "Start"
    /\ mode = "none"
    /\ runs = 1
    /\ local \in LocalTrees
    /\ \E S \in FileSets :
          /\ rfiles \in [S -> {"H1"}]
          /\ rdirs \in RemoteDirSets(S)
    /\ manifest \in InitialHashfiles(rfiles)
    /\ manifest0 = manifest
    /\ old_hashes = <<>>
    /\ new_hashes = <<>>
    /\ already_created_folders = {}
    /\ paths = <<>>
    /\ mk = <<>>
    /\ dels = <<>>
    /\ stack = <<>>
    /\ ops = <<>>
    /\ aborted = ""
    /\ wrote = FALSE
    /\ prev = NoPrev
    /\ fn = "none"
    /\ arg1 = <<>>
    /\ arg2 = <<>>
    /\ result = <<>>

\* ------------------------------------------------------------------ the server
\* The server resolves "./x" to "x".
Put(f, p, h) == [q \in DOMAIN f \cup {p} |-> IF q = p THEN h ELSE f[q]]
Drop(f, p) == [q \in DOMAIN f \ {p} |-> f[q]]

ParentExists(p) == SplitHead(p) = <<>> \/ SplitHead(p) \in rdirs

\* MKD succeeds on a new name in an existing folder.
MkdAccepted(folder) ==
    LET p == PathParts(folder)
    IN  p # <<>> /\ p \notin rdirs /\ p \notin DOMAIN rfiles /\ ParentExists(p)

\* STOR succeeds in an existing folder on a name that is no folder.
StorAccepted(path) ==
    LET p == PathParts(path)
    IN  p # <<>> /\ p \notin rdirs /\ ParentExists(p)

\* MLSD path: the entries of a folder, each with its subpath and type.
Listing(path) ==
    {[path |-> f, type |-> "file"] : f \in {g \in DOMAIN rfiles : SplitHead(g) = path}}
    \cup {[path |-> d, type |-> "dir"] : d \in {e \in rdirs : SplitHead(e) = path}}
    \cup (IF path = <<>> /\ manifest.exists
          THEN {[path |-> hashfile, type |-> "file"]} ELSE {})

\* The orders in which the server may list a set of entries.
Orders(S) ==
    {o \in [1..Cardinality(S) -> S] : \A i, j \in 1..Cardinality(S) : o[i] = o[j] => i = j}

\* What a broken storlines can leave: some of the lines, not all.
PartialLines(text) ==
    {SubSeq(text, 1, n) : n \in {0} \cup {i \in 1..(Len(text) - 1) : text[i].t = "nl"}}

\* ------------------------------------------------------------------ the run
FailSwallowed == pc' = pc /\ aborted' = aborted

\* An exception leaves run() and main(): the run is over.
Fail == pc' = "Aborted" /\ aborted' = pc

CreateParentOnly(path, created) ==
    IF SplitHead(path) # <<>> /\ SplitHead(path) \notin created
    THEN <<SplitHead(path)>>
    ELSE <<>>

\* create_parent_folder(path): the folders it makes, in the order of its mkd
\* calls; the inner call's come first.
RECURSIVE create_parent_folder(_, _)
create_parent_folder(path, created) ==
    LET folder == SplitHead(path)
    IN  IF folder # <<>> /\ folder \notin created
        THEN Append(create_parent_folder(folder, created), folder)
        ELSE <<>>

NextMk(ps, created) ==
    IF ps = <<>> THEN <<>> ELSE create_parent_folder(Head(ps), created)

PositionDeletesFirst(ps, ds) ==
    IF ds # <<>> THEN "delete_files"
    ELSE IF ps # <<>> THEN "upload_files"
    ELSE "ManifestWritten"

\* Where upload_all / upload_changed stand with ps to upload and ds to delete.
Position(ps, ds) ==
    IF ps # <<>> THEN "upload_files"
    ELSE IF ds # <<>> THEN "delete_files"
    ELSE "ManifestWritten"

\* run(): if old_hashes is None: upload_all() else: upload_changed(old_hashes)
RunMode(r) == IF r.kind = "None" THEN "Bootstrap" ELSE "Incremental"

\* run(): connect, login, prot_p, cwd.
Connect ==
    /\ pc = "Start"
    /\ \/ pc' = "ManifestLoadAttempted" /\ aborted' = aborted
       \/ Fail
    /\ UNCHANGED <<mode, runs, local, remoteVars, manifest0, planVars,
                   already_created_folders, mk, stack, ops, wrote, prev, pureVars>>

\* run(): old_hashes = self.load_hashes(), and the choice of the mode.
LoadHashes ==
    /\ pc = "ManifestLoadAttempted"
    /\ \/ /\ ops' = Append(ops, Call("retrlines", hashfile, "failed"))
          /\ Fail
          /\ UNCHANGED <<mode, old_hashes>>
       \/ /\ load_hashes(manifest).kind = "AttributeError"
          /\ ops' = Append(ops, Call("retrlines", hashfile, "ok"))
          /\ Fail
          /\ UNCHANGED <<mode, old_hashes>>
       \/ LET r == load_hashes(manifest)
          IN  /\ r.kind # "AttributeError"
              /\ ops' = Append(ops, Call("retrlines", hashfile,
                                   IF manifest.exists THEN "ok" ELSE "error_perm"))
              /\ mode' = RunMode(r)
              /\ old_hashes' = r.hashes
              /\ pc' = IF RunMode(r) = "Bootstrap" THEN "delete_contents"
                       ELSE "delete_hashfile"
              /\ aborted' = aborted
    /\ UNCHANGED <<runs, local, remoteVars, manifest0, new_hashes, paths, dels,
                   already_created_folders, mk, stack, wrote, prev, pureVars>>

DeleteHashfileKept ==
    /\ pc = "delete_hashfile"
    /\ already_created_folders' = get_folders(old_hashes)
    /\ pc' = "scan"
    /\ UNCHANGED <<mode, runs, local, remoteVars, manifest0, planVars, mk, stack,
                   ops, aborted, wrote, prev, pureVars>>

\* upload_changed: self.ftp.delete(self.config.hashfile), then the folders of
\* the old hashes are taken as created.
DeleteHashfile ==
    /\ pc = "delete_hashfile"
    /\ \/ /\ ops' = Append(ops, Call("delete", hashfile, "ok"))
          /\ manifest' = NoHashfile
          /\ already_created_folders' = get_folders(old_hashes)
          /\ pc' = "scan"
          /\ aborted' = aborted
       \/ /\ ops' = Append(ops, Call("delete", hashfile, "failed"))
          /\ Fail
          /\ UNCHANGED <<manifest, already_created_folders>>
    /\ UNCHANGED <<mode, runs, local, rfiles, rdirs, manifest0, planVars, mk,
                   stack, wrote, prev, pureVars>>

\* delete_contents: for ... in self.ftp.mlsd(path), on the first call and on
\* the call for a "dir" entry.
Mlsd ==
    /\ pc = "delete_contents"
    /\ \/ stack = <<>>
       \/ /\ stack # <<>>
          /\ stack[Len(stack)].entries # <<>>
          /\ Head(stack[Len(stack)].entries).type = "dir"
    /\ LET path == IF stack = <<>> THEN <<>>
                   ELSE Head(stack[Len(stack)].entries).path
       IN  \/ /\ ops' = Append(ops, Call("mlsd", path, "ok"))
              /\ \E o \in Orders(Listing(path)) :
                    stack' = Append(stack, [path |-> path, entries |-> o])
              /\ UNCHANGED <<pc, aborted>>
           \/ /\ ops' = Append(ops, Call("mlsd", path, "failed"))
              /\ Fail
              /\ UNCHANGED stack
    /\ UNCHANGED <<mode, runs, local, remoteVars, manifest0, planVars,
                   already_created_folders, mk, wrote, prev, pureVars>>

DeleteEntryFilesKept ==
    /\ pc = "delete_contents"
    /\ stack # <<>>
    /\ stack[Len(stack)].entries # <<>>
    /\ Head(stack[Len(stack)].entries).type = "file"
    /\ stack' = [stack EXCEPT ![Len(stack)].entries = Tail(stack[Len(stack)].entries)]
    /\ UNCHANGED <<pc, aborted, ops, rfiles, manifest>>
    /\ UNCHANGED <<mode, runs, local, rdirs, manifest0, planVars,
                   already_created_folders, mk, wrote, prev, pureVars>>

\* delete_contents: self.ftp.delete(subpath) for a "file" entry.
DeleteEntry ==
    /\ pc = "delete_contents"
    /\ stack # <<>>
    /\ stack[Len(stack)].entries # <<>>
    /\ Head(stack[Len(stack)].entries).type = "file"
    /\ LET top == stack[Len(stack)]
           subpath == Head(top.entries).path
       IN  \/ /\ ops' = Append(ops, Call("delete", subpath, "ok"))
              /\ IF subpath = hashfile
                 THEN manifest' = NoHashfile /\ rfiles' = rfiles
                 ELSE rfiles' = Drop(rfiles, subpath) /\ manifest' = manifest
              /\ stack' = [stack EXCEPT ![Len(stack)].entries = Tail(top.entries)]
              /\ UNCHANGED <<pc, aborted>>
           \/ /\ ops' = Append(ops, Call("delete", subpath, "failed"))
              /\ Fail
              /\ UNCHANGED <<rfiles, manifest, stack>>
    /\ UNCHANGED <<mode, runs, local, rdirs, manifest0, planVars,
                   already_created_folders, mk, wrote, prev, pureVars>>

\* delete_contents: self.ftp.rmd(subpath) once the call for the folder returned.
Rmd ==
    /\ pc = "delete_contents"
    /\ Len(stack) >= 2
    /\ stack[Len(stack)].entries = <<>>
    /\ LET subpath == stack[Len(stack)].path
           parent == stack[Len(stack) - 1]
       IN  \/ /\ ops' = Append(ops, Call("rmd", subpath, "ok"))
              /\ rdirs' = rdirs \ {subpath}
              /\ stack' = [SubSeq(stack, 1, Len(stack) - 1)
                             EXCEPT ![Len(stack) - 1].entries = Tail(parent.entries)]
              /\ UNCHANGED <<pc, aborted>>
           \/ /\ ops' = Append(ops, Call("rmd", subpath, "failed"))
              /\ Fail
              /\ UNCHANGED <<rdirs, stack>>
    /\ UNCHANGED <<mode, runs, local, rfiles, manifest, manifest0, planVars,
                   already_created_folders, mk, wrote, prev, pureVars>>

\* folder_hashes() and the plan: new_files(new_hashes, {}) in upload_all,
\* new_files and deleted_files(new_hashes, old_hashes) in upload_changed.
ScanLocal ==
    /\ \/ pc = "scan"
       \/ pc = "delete_contents" /\ Len(stack) = 1 /\ stack[1].entries = <<>>
    /\ new_hashes' = local
    /\ paths' = IF mode = "Bootstrap" THEN new_files(local, <<>>)
                ELSE new_files(local, old_hashes)
    /\ dels' = IF mode = "Bootstrap" THEN <<>>
               ELSE deleted_files(local, old_hashes)
    /\ mk' = NextMk(paths', already_created_folders)
    /\ pc' = Position(paths', dels')
    /\ stack' = <<>>
    /\ UNCHANGED <<mode, runs, local, remoteVars, manifest0, old_hashes,
                   already_created_folders, ops, aborted, wrote, prev, pureVars>>

\* create_parent_folder: already_created_folders.add(folder); ftp.mkd(folder);
\* except ftplib.error_perm: pass.
Mkd ==
    /\ pc = "upload_files"
    /\ mk # <<>>
    /\ LET folder == Head(mk)
       IN  /\ already_created_folders' = already_created_folders \cup {folder}
           /\ \/ /\ MkdAccepted(folder)
                 /\ ops' = Append(ops, Call("mkd", folder, "ok"))
                 /\ rdirs' = rdirs \cup {PathParts(folder)}
                 /\ mk' = Tail(mk)
                 /\ UNCHANGED <<pc, aborted>>
              \/ /\ PathParts(folder) \in rdirs
                 /\ ops' = Append(ops, Call("mkd", folder, "exists"))
                 /\ mk' = Tail(mk)
                 /\ UNCHANGED <<rdirs, pc, aborted>>
              \/ /\ PathParts(folder) \notin rdirs
                 /\ ops' = Append(ops, Call("mkd", folder, "refused"))
                 /\ mk' = Tail(mk)
                 /\ UNCHANGED <<rdirs, pc, aborted>>
              \/ /\ ops' = Append(ops, Call("mkd", folder, "failed"))
                 /\ Fail
                 /\ UNCHANGED <<rdirs, mk>>
    /\ UNCHANGED <<mode, runs, local, rfiles, manifest, manifest0, planVars,
                   stack, wrote, prev, pureVars>>

\* upload_files: self.ftp.storbinary("STOR " + path, file).
Stor ==
    /\ pc = "upload_files"
    /\ mk = <<>>
    /\ LET path == Head(paths)
           p == PathParts(path)
       IN  \/ /\ StorAccepted(path)
              /\ ops' = Append(ops, Call("storbinary", path, "ok"))
              /\ rfiles' = Put(rfiles, p, Get(new_hashes, path))
              /\ paths' = Tail(paths)
              /\ mk' = NextMk(paths', already_created_folders)
              /\ pc' = Position(paths', dels)
              /\ aborted' = aborted
           \/ /\ ~StorAccepted(path)
              /\ ops' = Append(ops, Call("storbinary", path, "error_perm"))
              /\ Fail
              /\ UNCHANGED <<rfiles, paths, mk>>
           \/ /\ StorAccepted(path)
              /\ ops' = Append(ops, Call("storbinary", path, "failed"))
              /\ rfiles' \in {rfiles, Put(rfiles, p, Partial)}
              /\ Fail
              /\ UNCHANGED <<paths, mk>>
    /\ UNCHANGED <<mode, runs, local, rdirs, manifest, manifest0, old_hashes,
                   new_hashes, dels, already_created_folders, stack, wrote, prev,
                   pureVars>>

\* upload_changed: self.ftp.delete(path) for path in deleted_files(...).
Dele ==
    /\ pc = "delete_files"
    /\ LET path == Head(dels)
           p == PathParts(path)
       IN  \/ /\ p \in DOMAIN rfiles
              /\ ops' = Append(ops, Call("delete", path, "ok"))
              /\ rfiles' = Drop(rfiles, p)
              /\ dels' = Tail(dels)
              /\ pc' = Position(<<>>, dels')
              /\ aborted' = aborted
           \/ /\ p \notin DOMAIN rfiles
              /\ ops' = Append(ops, Call("delete", path, "error_perm"))
              /\ Fail
              /\ UNCHANGED <<rfiles, dels>>
           \/ /\ ops' = Append(ops, Call("delete", path, "failed"))
              /\ Fail
              /\ UNCHANGED <<rfiles, dels>>
    /\ UNCHANGED <<mode, runs, local, rdirs, manifest, manifest0, old_hashes,
                   new_hashes, paths, already_created_folders, mk, stack, wrote,
                   prev, pureVars>>

\* upload_all / upload_changed: self.save_hashes(new_hashes), the last call.
SaveHashes ==
    /\ pc = "ManifestWritten"
    /\ LET text == save_hashes(new_hashes)
       IN  \/ /\ ops' = Append(ops, Call("storlines", hashfile, "ok"))
              /\ manifest' = Hashfile(text)
              /\ wrote' = TRUE
              /\ pc' = "Done"
              /\ aborted' = aborted
           \/ /\ ops' = Append(ops, Call("storlines", hashfile, "failed"))
              /\ Fail
              /\ \/ manifest' = manifest /\ wrote' = FALSE
                 \/ /\ \E part \in PartialLines(text) : manifest' = Hashfile(part)
                    /\ wrote' = FALSE
                 \/ manifest' = Hashfile(text) /\ wrote' = TRUE
    /\ UNCHANGED <<mode, runs, local, rfiles, rdirs, manifest0, planVars,
                   already_created_folders, mk, stack, prev, pureVars>>

\* main() is invoked again, on a local tree that may have changed.
NextRun ==
    /\ pc \in {"Done", "Aborted"}
    /\ runs < MaxRuns
    /\ runs' = runs + 1
    /\ prev' = [ended |-> pc, aborted |-> aborted, wrote |-> wrote, mode |-> mode,
                manifest0 |-> manifest0]
    /\ local' \in LocalTrees
    /\ pc' = "Start"
    /\ mode' = "none"
    /\ manifest0' = manifest
    /\ old_hashes' = <<>>
    /\ new_hashes' = <<>>
    /\ already_created_folders' = {}
    /\ paths' = <<>>
    /\ mk' = <<>>
    /\ dels' = <<>>
    /\ stack' = <<>>
    /\ ops' = <<>>
    /\ aborted' = ""
    /\ wrote' = FALSE
    /\ UNCHANGED <<remoteVars, pureVars>>

Next ==
    \/ Connect
    \/ LoadHashes
    \/ DeleteHashfile
    \/ Mlsd
    \/ DeleteEntry
    \/ Rmd
    \/ ScanLocal
    \/ Mkd
    \/ Stor
    \/ Dele
    \/ SaveHashes
    \/ NextRun

Spec == Init /\ [][Next]_vars

\* ------------------------------------------------------------------ a run as a function
\* upload_files and the delete loop of upload_changed as functions of the
\* remote tree, on a server that refuses a call only for the state of the
\* tree.  A tree t has its files, its folders, already_created_folders and
\* ok, FALSE once a call has raised.
Tree(files, dirs, created) ==
    [ok |-> TRUE, files |-> files, dirs |-> dirs, created |-> created]

\* create_parent_folder: add(folder), mkd(folder), error_perm passed over.
TreeMkd(t, folder) ==
    LET p == PathParts(folder)
        accepted == /\ p # <<>>
                    /\ p \notin t.dirs
                    /\ p \notin DOMAIN t.files
                    /\ SplitHead(p) = <<>> \/ SplitHead(p) \in t.dirs
    IN  [t EXCEPT !.created = @ \cup {folder},
                  !.dirs = IF accepted THEN @ \cup {p} ELSE @]

RECURSIVE TreeMkds(_, _)
TreeMkds(t, folders) ==
    IF folders = <<>> THEN t
    ELSE TreeMkds(TreeMkd(t, Head(folders)), Tail(folders))

\* storbinary("STOR " + path): raises when the server refuses it.
TreeStor(t, path, h) ==
    LET p == PathParts(path)
        accepted == /\ p # <<>>
                    /\ p \notin t.dirs
                    /\ SplitHead(p) = <<>> \/ SplitHead(p) \in t.dirs
    IN  IF accepted THEN [t EXCEPT !.files = Put(@, p, h)]
        ELSE [t EXCEPT !.ok = FALSE]

\* upload_files(paths)
RECURSIVE TreeUploadFiles(_, _, _)
TreeUploadFiles(t, ps, new) ==
    IF ~t.ok \/ ps = <<>> THEN t
    ELSE TreeUploadFiles(
             TreeStor(TreeMkds(t, create_parent_folder(Head(ps), t.created)),
                      Head(ps), Get(new, Head(ps))),
             Tail(ps), new)

\* for path in deleted_files(...): self.ftp.delete(path)
RECURSIVE TreeDeleteFiles(_, _)
TreeDeleteFiles(t, ds) ==
    IF ~t.ok \/ ds = <<>> THEN t
    ELSE IF PathParts(Head(ds)) \in DOMAIN t.files
    THEN TreeDeleteFiles([t EXCEPT !.files = Drop(@, PathParts(Head(ds)))], Tail(ds))
    ELSE [t EXCEPT !.ok = FALSE]

\* upload_changed from the scan on: the uploads, then the deletes.
UploadsThenDeletes(t, new, old) ==
    TreeDeleteFiles(TreeUploadFiles(t, new_files(new, old), new),
                    deleted_files(new, old))

\* ------------------------------------------------------------------ the functions on their own
\* Keys of the dicts handed to the functions: plain paths, paths with the old
\* "./" prefix, and one that carries it twice.
PureKeys == {<<"a">>, <<".", "a">>, <<".", ".", "a">>, <<"d">>, <<"d", "c">>}
OldKeys == {<<"a">>, <<"d">>, <<"d", "c">>}

\* Every dict of at most n items over the keys K, in every insertion order.
DictsOver(K, n) ==
    UNION {{d \in [1..m -> K \X Hashes] : IsDict(d)} : m \in 0..n}

InitPure ==
    /\ fn = "none"
    /\ arg1 \in DictsOver(PureKeys, MaxDictLen)
    /\ arg2 \in DictsOver(OldKeys, MaxDictLen)
    /\ result = <<>>
    /\ pc = "Done"
    /\ mode = "none"
    /\ runs = MaxRuns
    /\ local = <<>>
    /\ rfiles = <<>>
    /\ rdirs = {}
    /\ manifest = NoHashfile
    /\ manifest0 = NoHashfile
    /\ old_hashes = <<>>
    /\ new_hashes = <<>>
    /\ already_created_folders = {}
    /\ paths = <<>>
    /\ mk = <<>>
    /\ dels = <<>>
    /\ stack = <<>>
    /\ ops = <<>>
    /\ aborted = ""
    /\ wrote = FALSE
    /\ prev = NoPrev

runVars == <<pc, mode, runs, local, rfiles, rdirs, manifest, manifest0, old_hashes,
             new_hashes, already_created_folders, paths, mk, dels, stack, ops,
             aborted, wrote, prev>>

ApplyNewFiles ==
    /\ fn = "none"
    /\ fn' = "new_files"
    /\ result' = new_files(arg1, arg2)
    /\ UNCHANGED <<arg1, arg2, runVars>>

ApplyDeletedFiles ==
    /\ fn = "none"
    /\ fn' = "deleted_files"
    /\ result' = deleted_files(arg1, arg2)
    /\ UNCHANGED <<arg1, arg2, runVars>>

ApplyNormalizePaths ==
    /\ fn = "none"
    /\ fn' = "normalize_paths"
    /\ result' = normalize_paths(arg1)
    /\ UNCHANGED <<arg1, arg2, runVars>>

ApplyGetFolders ==
    /\ fn = "none"
    /\ fn' = "get_folders"
    /\ result' = get_folders(arg1)
    /\ UNCHANGED <<arg1, arg2, runVars>>

\* save_hashes(arg1) on a server that holds no hash file, then load_hashes().
ApplySaveLoad ==
    /\ fn = "none"
    /\ fn' = "save_load"
    /\ manifest' = Hashfile(save_hashes(arg1))
    /\ result' = load_hashes(manifest')
    /\ UNCHANGED <<arg1, arg2, pc, mode, runs, local, rfiles, rdirs, manifest0,
                   old_hashes, new_hashes, already_created_folders, paths, mk,
                   dels, stack, ops, aborted, wrote, prev>>

NextPure ==
    \/ ApplyNewFiles
    \/ ApplyDeletedFiles
    \/ ApplyNormalizePaths
    \/ ApplyGetFolders
    \/ ApplySaveLoad

SpecPure == InitPure /\ [][NextPure]_vars

\* ------------------------------------------------------------------ properties of a run
\* The remote files (the hash file apart) are the mapping d.
RemoteEquals(d) ==
    /\ DOMAIN rfiles = Keys(d)
    /\ \A p \in DOMAIN rfiles : rfiles[p] = Get(d, p)

\* The JSON value of a hash file's text.
Decoded(file) == json_load(RetrLines(file.text))
Decodable(file) == file.exists /\ Decoded(file).kind = "dict"

Issued(op) == {i \in 1..Len(ops) : ops[i].op = op}
TreeDeletes == {i \in Issued("delete") : ops[i].path # hashfile}

\* C1: a run that reaches Done leaves the remote files equal to the local
\* path -> hash mapping, and the remote hash file decodes to that mapping.
\* (Every run starts with no decodable hash file or with one that matches
\* the remote files: Init chooses such a state, and C2 keeps it between runs.)
C1_DoneMirrorsLocal ==
    pc = "Done" =>
        /\ RemoteEquals(local)
        /\ load_hashes(manifest).kind = "dict"
        /\ DictEq(load_hashes(manifest).hashes, local)

\* An incremental run that uploaded a file, deleted another and reached Done.
C1_Witness ==
    /\ pc = "Done"
    /\ mode = "Incremental"
    /\ Issued("storbinary") # {}
    /\ TreeDeletes # {}

\* C2: in every state of every sequence of runs, each of which may fail at
\* any call, a decodable remote hash file maps exactly the remote files to
\* their hashes.
C2_ManifestMatchesRemote ==
    load_hashes(manifest).kind = "dict" =>
        RemoteEquals(load_hashes(manifest).hashes)

\* An incremental run failed after it changed the tree: no hash file is left.
C2_Witness ==
    /\ pc = "Aborted"
    /\ mode = "Incremental"
    /\ manifest0.exists
    /\ ~RemoteEquals(old_hashes)
    /\ ~manifest.exists

\* C3: once the hash file was read, the run is in Bootstrap mode exactly
\* when the file was not found or its text did not decode, and neither is a
\* failure of the run; a text that decodes, the empty mapping included, puts
\* the run in Incremental mode with the normalized mapping, and such a run
\* never lists or removes remote folders.
C3_ModeFollowsManifest ==
    LET missing == ~manifest0.exists
        corrupt == manifest0.exists /\ Decoded(manifest0).kind = "JSONDecodeError"
        decoded == manifest0.exists /\ Decoded(manifest0).kind # "JSONDecodeError"
        loaded  == Issued("retrlines") # {} /\ ops[1].res # "failed"
    IN  /\ mode # "none" => (mode = "Bootstrap" <=> (missing \/ corrupt))
        /\ (loaded /\ (missing \/ corrupt)) =>
              mode = "Bootstrap" /\ aborted # "ManifestLoadAttempted"
        /\ (loaded /\ decoded) =>
              /\ mode = "Incremental"
              /\ aborted # "ManifestLoadAttempted"
              /\ \A k \in Keys(Decoded(manifest0).hashes) :
                    Get(old_hashes, removeprefix(k)) \in Hashes
              /\ Issued("mlsd") = {}
              /\ Issued("rmd") = {}

\* C4 as stated: after a run that failed anywhere, the next run is in
\* Bootstrap mode if the failed run did not complete the write of the hash
\* file, and in Incremental mode otherwise.
C4_AsStated ==
    (prev.ended = "Aborted" /\ mode # "none") =>
        (mode = "Bootstrap" <=> ~prev.wrote)

\* The positions of a run at which the old hash file is already gone or was
\* never usable.
AfterManifestGone ==
    {"delete_contents", "scan", "upload_files", "delete_files", "ManifestWritten"}

\* C4, amended: after a run that failed once it was in Bootstrap mode or had
\* deleted the old hash file, the next run is in Bootstrap mode if the failed
\* run did not complete the write of the hash file, and in Incremental mode
\* otherwise; a run that failed earlier left the hash file as it found it,
\* and the next run decides on that file.
C4_NextModeAfterAbort ==
    /\ (prev.ended = "Aborted" /\ prev.aborted \in AfterManifestGone /\ mode # "none")
          => (mode = "Bootstrap" <=> ~prev.wrote)
    /\ (prev.ended = "Aborted" /\ prev.aborted \notin AfterManifestGone)
          => /\ manifest0 = prev.manifest0
             /\ mode # "none" => (mode = "Incremental" <=> Decodable(prev.manifest0))

\* A run failed during its uploads in Incremental mode; the next one is in
\* Bootstrap mode.
C4_Witness ==
    /\ prev.ended = "Aborted"
    /\ prev.aborted = "upload_files"
    /\ prev.mode = "Incremental"
    /\ mode = "Bootstrap"

\* The hash file found by this run has "./" on every key and, with the prefix
\* taken off, is the local mapping.
PrefixedAndUnchanged ==
    /\ Decodable(manifest0)
    /\ LET raw == Decoded(manifest0).hashes
       IN  /\ raw # <<>>
           /\ Len(raw) = Len(local)
           /\ \A i \in 1..Len(raw) :
                 /\ Len(raw[i][1]) >= 2
                 /\ raw[i][1][1] = "."
                 /\ Get(local, Tail(raw[i][1])) = raw[i][2]

ManifestOps == <<Call("retrlines", hashfile, "ok"), Call("delete", hashfile, "ok"),
                 Call("storlines", hashfile, "ok")>>

\* C5: on a hash file with prefixed keys that equals the local mapping once
\* normalized, the run changes the server twice, deleting the hash file and
\* writing it, with no upload, no delete of a file and no mkd; the written
\* mapping is the old one without the prefix.
C5_PrefixedUnchangedNoTransfer ==
    (mode # "none" /\ PrefixedAndUnchanged) =>
        /\ mode = "Incremental"
        /\ Issued("storbinary") = {} /\ Issued("mkd") = {} /\ TreeDeletes = {}
        /\ \A i \in 1..Len(ops) :
              ops[i].op = ManifestOps[i].op /\ ops[i].path = hashfile
        /\ pc = "Done" =>
              /\ ops = ManifestOps
              /\ Decodable(manifest)
              /\ \A i \in 1..Len(Decoded(manifest0).hashes) :
                    Get(Decoded(manifest).hashes, Tail(Decoded(manifest0).hashes[i][1]))
                        = Decoded(manifest0).hashes[i][2]
              /\ Len(Decoded(manifest).hashes) = Len(Decoded(manifest0).hashes)

C5_Witness ==
    /\ pc = "Done"
    /\ PrefixedAndUnchanged
    /\ Len(local) = 2

\* Present in both mappings with the same hash.
Unchanged(p) ==
    p \in Keys(local) /\ p \in Keys(old_hashes) /\ Get(local, p) = Get(old_hashes, p)

\* C6: an incremental run issues no upload and no delete for a path that is
\* in both mappings with equal hashes; with equal mappings it has nothing to
\* upload and nothing to delete.
C6_UnchangedUntouched ==
    mode = "Incremental" =>
        /\ \A i \in Issued("storbinary") \cup TreeDeletes : ~Unchanged(ops[i].path)
        /\ \A i \in 1..Len(paths) : ~Unchanged(paths[i])
        /\ \A i \in 1..Len(dels) : ~Unchanged(dels[i])
        /\ DictEq(local, old_hashes) =>
              /\ paths = <<>> /\ dels = <<>>
              /\ Issued("storbinary") = {} /\ TreeDeletes = {}

\* An incremental run uploaded a changed file and left an unchanged one alone.
C6_Witness ==
    /\ mode = "Incremental"
    /\ pc = "Done"
    /\ Issued("storbinary") # {}
    /\ \E p \in Keys(local) : Unchanged(p)

\* ------------------------------------------------------------------ properties of the functions
\* Python's order of the key strings used here, written out:
\* "././a" < "./a" < "a" < "d" < "d/c".
StringOrder == <<<<".", ".", "a">>, <<".", "a">>, <<"a">>, <<"d">>, <<"d", "c">>>>
OrderIndex(p) == CHOOSE i \in 1..Len(StringOrder) : StringOrder[i] = p
Ascending(seq) ==
    \A i, j \in 1..Len(seq) : i < j => OrderIndex(seq[i]) < OrderIndex(seq[j])
Elements(seq) == {seq[i] : i \in 1..Len(seq)}
Value(d, k) == d[CHOOSE i \in 1..Len(d) : d[i][1] = k][2]

\* C7: new_files(new, old) lists exactly the keys of new that old lacks or
\* maps to another hash, each once, in ascending order; with old empty these
\* are all keys of new, with new empty there are none.
C7_ToUploadExact ==
    fn = "new_files" =>
        /\ Elements(result) =
              {k \in Keys(arg1) : k \notin Keys(arg2) \/ Value(arg1, k) # Value(arg2, k)}
        /\ Ascending(result)
        /\ arg2 = <<>> => Elements(result) = Keys(arg1) /\ Len(result) = Len(arg1)
        /\ arg1 = <<>> => result = <<>>

\* Two keys out of insertion order, one new and one changed, are both listed.
C7_Witness ==
    /\ fn = "new_files"
    /\ Len(result) = 2
    /\ result[1] = arg1[2][1]
    /\ result[1] \in Keys(arg2)
    /\ result[2] \notin Keys(arg2)

\* C8: deleted_files(new, old) lists exactly the keys of old that new lacks,
\* in ascending order; a key in both whose hash changed is in new_files only;
\* with new empty these are all keys of old.
C8_ToDeleteExact ==
    fn = "deleted_files" =>
        /\ Elements(result) = Keys(arg2) \ Keys(arg1)
        /\ Ascending(result)
        /\ \A k \in Keys(arg1) \cap Keys(arg2) :
              Value(arg1, k) # Value(arg2, k) =>
                  k \notin Elements(result) /\ k \in Elements(new_files(arg1, arg2))
        /\ arg1 = <<>> => Elements(result) = Keys(arg2) /\ Len(result) = Len(arg2)

\* One key of old is gone, another one changed its hash.
C8_Witness ==
    /\ fn = "deleted_files"
    /\ Len(arg2) = 2
    /\ Len(result) = 1
    /\ \E k \in Keys(arg1) \cap Keys(arg2) : Value(arg1, k) # Value(arg2, k)

\* The key strings with one leading "./" taken off, written out.
Stripped(k) ==
    CASE k = <<".", "a">> -> <<"a">>
      [] k = <<".", ".", "a">> -> <<".", "a">>
      [] OTHER -> k

\* C9 as stated: for a mapping over any keys, normalizing twice is
\* normalizing once, every key loses exactly one leading "./" and keeps its
\* hash.
C9_AsStated ==
    fn = "normalize_paths" =>
        /\ DictEq(normalize_paths(result), result)
        /\ Keys(result) = {Stripped(k) : k \in Keys(arg1)}
        /\ \A k \in Keys(arg1) : Get(result, Stripped(k)) = Value(arg1, k)

\* No key carries the prefix twice.
SinglePrefix(d) == \A k \in Keys(d) : ~(Len(k) >= 3 /\ k[1] = "." /\ k[2] = ".")

\* C9, amended: every key loses exactly one leading "./" and nothing else;
\* a key keeps its hash unless a later key strips to the same path, and then
\* the later key's hash stands; on a mapping no key of which carries the
\* prefix twice, normalizing twice is normalizing once.
C9_NormalizeStripsOnce ==
    fn = "normalize_paths" =>
        /\ Keys(result) = {Stripped(k) : k \in Keys(arg1)}
        /\ IsDict(result)
        /\ \A i \in 1..Len(arg1) :
              (\A j \in (i + 1)..Len(arg1) : Stripped(arg1[j][1]) # Stripped(arg1[i][1]))
                  => Get(result, Stripped(arg1[i][1])) = arg1[i][2]
        /\ SinglePrefix(arg1) => DictEq(normalize_paths(result), result)

\* A prefixed key and a plain one, normalized.
C9_Witness ==
    /\ fn = "normalize_paths"
    /\ SinglePrefix(arg1)
    /\ Keys(arg1) = {<<".", "a">>, <<"d", "c">>}
    /\ Keys(result) = {<<"a">>, <<"d", "c">>}

\* No key starts with "./".
Normalized(d) == \A k \in Keys(d) : ~(Len(k) >= 2 /\ k[1] = ".")

\* C10: what load_hashes returns after save_hashes(m), for a normalized m
\* (the empty one included), is m.
C10_SaveLoadRoundTrip ==
    (fn = "save_load" /\ Normalized(arg1)) =>
        /\ result.kind = "dict"
        /\ Len(result.hashes) = Len(arg1)
        /\ Keys(result.hashes) = Keys(arg1)
        /\ \A k \in Keys(arg1) : Value(result.hashes, k) = Value(arg1, k)

\* A mapping of two normalized keys went through the hash file.
C10_Witness ==
    /\ fn = "save_load"
    /\ Normalized(arg1)
    /\ Len(arg1) = 2
    /\ result.kind = "dict"
    /\ result.hashes = arg1

\* ------------------------------------------------------------------ properties of the calls of a run
\* The calls that change the tree below the remote directory.
Transfers == Issued("storbinary") \cup Issued("mkd")

\* C11: the calls of an incremental run come in this order: the read of the
\* hash file, the delete of the old hash file, every mkd and upload, every
\* delete of a file that is gone, the write of the new hash file; no upload,
\* delete of a file or mkd comes before the delete of the hash file or after
\* the write, and a delete is issued only once every upload was.
C11_IncrementalOrder ==
    mode = "Incremental" =>
        /\ ops # <<>> /\ ops[1] = Call("retrlines", hashfile, "ok")
        /\ Issued("retrlines") = {1}
        /\ Len(ops) >= 2 => ops[2].op = "delete" /\ ops[2].path = hashfile
        /\ \A i \in Transfers \cup TreeDeletes \cup Issued("storlines") :
              i > 2 /\ ops[2] = Call("delete", hashfile, "ok")
        /\ \A i \in Transfers : \A j \in TreeDeletes : i < j
        /\ \A i \in Issued("storlines") :
              i = Len(ops) /\ \A j \in Transfers \cup TreeDeletes : j < i
        /\ TreeDeletes # {} => paths = <<>>
        /\ Issued("storlines") # {} => paths = <<>> /\ dels = <<>>
        /\ Issued("mlsd") = {} /\ Issued("rmd") = {}

\* An incremental run made a folder, uploaded into it, deleted a file that
\* was gone and wrote the hash file.
C11_Witness ==
    /\ mode = "Incremental"
    /\ pc = "Done"
    /\ \E i \in Issued("mkd") : ops[i].res = "ok"
    /\ Issued("storbinary") # {}
    /\ TreeDeletes # {}
    /\ ops[Len(ops)] = Call("storlines", hashfile, "ok")

\* The folders taken as created when the uploads of the run begin.
Seeded == IF mode = "Incremental" THEN get_folders(old_hashes) ELSE {}

\* C12: in both modes, when the upload of a path is issued every proper
\* ancestor folder of the path is in already_created_folders, seeded or with
\* its mkd issued earlier in the run, and of two mkd calls for folders one
\* above the other the upper folder's comes first.
C12_FoldersBeforeUpload ==
    /\ (pc = "upload_files" /\ mk = <<>>) =>
          Ancestors(Head(paths)) \subseteq already_created_folders
    /\ \A i \in Issued("storbinary") : \A a \in Ancestors(ops[i].path) :
          /\ a \in already_created_folders
          /\ a \in Seeded \/ \E j \in Issued("mkd") : j < i /\ ops[j].path = a
    /\ \A i, j \in Issued("mkd") :
          ProperPrefix(ops[i].path, ops[j].path) => i < j

\* A bootstrap run uploaded a file two folders down after it made both.
C12_Witness ==
    /\ mode = "Bootstrap"
    /\ \E i \in Issued("storbinary") :
          /\ ops[i].res = "ok"
          /\ Len(ops[i].path) = 3
          /\ \A a \in Ancestors(ops[i].path) :
                \E j \in Issued("mkd") : j < i /\ ops[j].path = a /\ ops[j].res = "ok"

Beneath(d) == {p \in DOMAIN rfiles \cup rdirs : ProperPrefix(d, p)}

\* Nothing is left in the remote directory.
RemoteEmpty == DOMAIN rfiles = {} /\ rdirs = {} /\ ~manifest.exists

\* C14: in a bootstrap run delete_contents issues rmd for a folder only
\* when nothing is left below it, after the deletes and rmds of everything
\* that was below it, and when it returns the remote directory is empty: no
\* file and no folder is there when the first mkd or upload is issued.
C14_EraseAllEmptiesRemote ==
    mode = "Bootstrap" =>
        /\ (pc = "delete_contents" /\ Len(stack) >= 2
                /\ stack[Len(stack)].entries = <<>>)
              => Beneath(stack[Len(stack)].path) = {}
        /\ \A i \in Issued("rmd") : \A j \in Issued("rmd") \cup Issued("delete") :
              ProperPrefix(ops[i].path, ops[j].path) => j < i
        /\ (pc = "delete_contents" /\ Len(stack) = 1 /\ stack[1].entries = <<>>)
              => RemoteEmpty
        /\ (pc \in {"upload_files", "ManifestWritten"} /\ Transfers = {})
              => RemoteEmpty
        /\ \A i \in Transfers : \A j \in Issued("rmd") \cup Issued("delete")
                                         \cup Issued("mlsd") : j < i

\* A bootstrap run emptied a remote directory with two files, a folder in a
\* folder and a hash file, and is about to make its first folder.
C14_Witness ==
    /\ mode = "Bootstrap"
    /\ pc = "upload_files"
    /\ Transfers = {}
    /\ mk # <<>>
    /\ Cardinality(TreeDeletes) = 2
    /\ Cardinality(Issued("rmd")) = 2
    /\ \E i \in Issued("delete") : ops[i].path = hashfile

\* The run failed at its last call.
AbortedAt(i) == pc = "Aborted" /\ i = Len(ops)

\* C15: a mkd that fails is passed over, and the run goes on, exactly when
\* it failed because the folder exists; after any other failure of mkd the
\* run is over, with no upload, delete or write of the hash file after it.
C15_OnlyExistsSwallowed ==
    \A i \in Issued("mkd") :
        /\ ops[i].res = "exists" => ~AbortedAt(i)
        /\ ops[i].res \in {"refused", "failed"} => AbortedAt(i)

\* C16: in every state of a run, a member of already_created_folders is a
\* folder of the old hashes or a folder whose mkd in this run succeeded; a
\* folder whose mkd failed is no member.
C16_CreatedSetOnlySuccessful ==
    /\ \A a \in already_created_folders :
          a \in Seeded \/ \E i \in Issued("mkd") : ops[i].path = a /\ ops[i].res = "ok"
    /\ \A i \in Issued("mkd") :
          ops[i].res # "ok" => ops[i].path \notin already_created_folders

\* The calls that end the run when they fail.
Fatal == Issued("storbinary") \cup Issued("delete") \cup Issued("mlsd")
             \cup Issued("rmd")

\* C17: when an upload, a delete of a file, a listing or an rmd fails, the
\* run is over: the failed call is its last call, the hash file is not
\* written and the run is not Done.
C17_FailureAborts ==
    \A i \in Fatal :
        ops[i].res # "ok" =>
            /\ AbortedAt(i)
            /\ Issued("storlines") = {}
            /\ ~wrote

\* An incremental run failed at the first of its two deletes.
C17_Witness ==
    /\ pc = "Aborted"
    /\ aborted = "delete_files"
    /\ Len(dels) = 2
    /\ ops[Len(ops)].op = "delete" /\ ops[Len(ops)].res = "failed"
    /\ ~manifest.exists

\* The same calls with the deletes first.
DeletesThenUploads(t, new, old) ==
    TreeUploadFiles(TreeDeleteFiles(t, deleted_files(new, old)),
                    new_files(new, old), new)

\* An incremental run has its plan and has not yet changed the tree.
Planned ==
    /\ mode = "Incremental"
    /\ pc \in {"upload_files", "delete_files", "ManifestWritten"}
    /\ Transfers = {} /\ TreeDeletes = {} /\ Issued("storlines") = {}

Here == Tree(rfiles, rdirs, already_created_folders)

SameResult(a, b) == a.ok = b.ok /\ a.files = b.files /\ a.dirs = b.dirs

\* C18 as stated: for the local and the old mapping of a run and the remote
\* tree it found, the deletes before the uploads end like the uploads before
\* the deletes: both succeed or both fail, with the same remote tree.
C18_AsStated ==
    Planned => SameResult(UploadsThenDeletes(Here, local, old_hashes),
                          DeletesThenUploads(Here, local, old_hashes))

\* A path to delete is a folder above a path to upload.
Conflict(new, old) ==
    \E i \in 1..Len(deleted_files(new, old)) :
        \E j \in 1..Len(new_files(new, old)) :
            ProperPrefix(PathParts(deleted_files(new, old)[i]),
                         PathParts(new_files(new, old)[j]))

\* The remote tree an incremental run that is Done started from: the files
\* of the old hashes, the folders without those the run made.
AtStart ==
    Tree([q \in Keys(old_hashes) |-> Get(old_hashes, q)],
         rdirs \ {ops[i].path : i \in {j \in Issued("mkd") : ops[j].res = "ok"}},
         get_folders(old_hashes))

\* C18, amended: when the uploads before the deletes succeed, the deletes
\* before the uploads succeed too and leave the same remote tree, which is
\* the tree a run that is Done has left; when no path to delete is a folder
\* above a path to upload, the two orders both succeed or both fail.
C18_OrderWhenUploadsFirstSucceeds ==
    /\ Planned =>
          LET a == UploadsThenDeletes(Here, local, old_hashes)
              b == DeletesThenUploads(Here, local, old_hashes)
          IN  /\ a.ok => SameResult(a, b)
              /\ ~Conflict(local, old_hashes) => a.ok = b.ok
    /\ (mode = "Incremental" /\ pc = "Done") =>
          LET a == UploadsThenDeletes(AtStart, local, old_hashes)
              b == DeletesThenUploads(AtStart, local, old_hashes)
          IN  /\ a.ok /\ a.files = rfiles /\ a.dirs = rdirs
              /\ SameResult(a, b)

\* An incremental run with a file to upload into a new folder and a file to
\* delete is Done.
C18_Witness ==
    /\ mode = "Incremental"
    /\ pc = "Done"
    /\ Issued("storbinary") # {}
    /\ TreeDeletes # {}
    /\ \E i \in Issued("mkd") : ops[i].res = "ok"
    /\ ~Conflict(local, old_hashes)

\* ------------------------------------------------------------------ properties of get_folders
\* The folders above each key string used here, written out: str(f) for f
\* in Path(k).parents.
FoldersAbove(k) ==
    CASE k = <<"d", "c">> -> {<<"d">>, <<".">>}
      [] OTHER -> {<<".">>}

\* C19 as stated: get_folders returns exactly the folders above the paths
\* short of the root, "." being no member, and the empty set for no path.
C19_AsStated ==
    fn = "get_folders" =>
        /\ result = UNION {FoldersAbove(k) \ {<<".">>} : k \in Keys(arg1)}
        /\ <<".">> \notin result
        /\ arg1 = <<>> => result = {}

\* C19, amended: get_folders returns exactly the folders above the paths,
\* the root "." among them whenever there is a path, and the empty set for
\* no path.
C19_FoldersWithRoot ==
    fn = "get_folders" =>
        /\ result = UNION {FoldersAbove(k) : k \in Keys(arg1)}
        /\ arg1 # <<>> => <<".">> \in result
        /\ arg1 = <<>> => result = {}

\* The folders of a file at the top, stored with the prefix, and a file in a
\* folder.
C19_Witness ==
    /\ fn = "get_folders"
    /\ Keys(arg1) = {<<".", "a">>, <<"d", "c">>}
    /\ result = {<<".">>, <<"d">>}

\* ------------------------------------------------------------------ the end of a run
\* The paths of the calls op on the tree, in the order of the calls.
PathsOf(op) ==
    LET sel == SelectSeq(ops, LAMBDA c : c.op = op /\ c.path # hashfile)
    IN  [i \in 1..Len(sel) |-> sel[i].path]

\* Some call of the run failed: connect or login, or a call on the server
\* that was refused or broke off.
SomeCallFailed ==
    aborted = "Start" \/ \E i \in 1..Len(ops) : ops[i].res # "ok"

\* C20: a run none of whose calls fails ends Done, so a run that failed has
\* a failed call; a run that is Done has issued every planned upload and
\* every planned delete once, and the write of the hash file last.
C20_NoFailureReachesDone ==
    /\ pc = "Aborted" => SomeCallFailed
    /\ pc = "Done" =>
          /\ PathsOf("storbinary") =
                new_files(local, IF mode = "Bootstrap" THEN <<>> ELSE old_hashes)
          /\ mode = "Incremental" =>
                PathsOf("delete") = deleted_files(local, old_hashes)
          /\ ops[Len(ops)] = Call("storlines", hashfile, "ok")
          /\ Cardinality(Issued("storlines")) = 1

====
